---- MODULE Spec2Model ----
(***************************************************************************)
(* Model of ai-service/main.py (Lexiclaire AI Service): the helpers        *)
(* read_pdf_and_offsets, classify_overall_risk, build_highlights,          *)
(* split_sections, diff_sections and the /analyze and /compare handlers.   *)
(*                                                                         *)
(* A Python str is modelled as a sequence of one-character strings; list   *)
(* indices stay 0-based as in the source (At(s, i) is s[i]).               *)
(***************************************************************************)
EXTENDS Integers, Sequences, FiniteSets, TLC

VARIABLES pc, args, ret

vars == <<pc, args, ret>>

None == "None"

(***************************************************************************)
(* Program constants                                                       *)
(***************************************************************************)
MAX_CHARS == 60000
MaxSnippet == 160
MaxSectionDesc == 180
MaxJoinDesc == 200
MaxChanges == 100
MaxTags == 6

(***************************************************************************)
(* Bounds of the model                                                     *)
(***************************************************************************)
MaxSecs == 3
MaxTextLen == 5
MaxOver == 2
MaxRisks == 4
MaxDocLen == 3
MaxPages == 3

(***************************************************************************)
(* Python str / list primitives                                            *)
(***************************************************************************)
At(s, i) == s[i + 1]

Min(x, y) == IF x < y THEN x ELSE y

\* s[:n]
Prefix(s, n) == SubSeq(s, 1, Min(Len(s), n))

\* s[lo:hi] for 0 <= lo <= hi <= len(s)
Slice(s, lo, hi) == SubSeq(s, lo + 1, hi)

\* the characters str.strip() removes
IsSpace(c) == c \in {" ", "\n", "\t"}

RECURSIVE lstrip(_)
lstrip(s) == IF s # <<>> /\ IsSpace(Head(s)) THEN lstrip(Tail(s)) ELSE s

RECURSIVE rstrip(_)
rstrip(s) ==
    IF s # <<>> /\ IsSpace(s[Len(s)]) THEN rstrip(SubSeq(s, 1, Len(s) - 1)) ELSE s

strip(s) == rstrip(lstrip(s))

\* sep.join(chunks), sep and chunks being strings (joined by halves)
RECURSIVE join(_, _)
join(sep, chunks) ==
    IF chunks = <<>> THEN <<>>
    ELSE IF Len(chunks) = 1 THEN chunks[1]
    ELSE LET h == Len(chunks) \div 2
         IN  join(sep, SubSeq(chunks, 1, h)) \o sep \o join(sep, SubSeq(chunks, h + 1, Len(chunks)))

\* the number of "\n" that directly precede position p of s (1-based)
NewlinesBefore(s, p) == Cardinality({q \in 1..(p - 1) : \A r \in q..(p - 1) : s[r] = "\n"})

\* s.split("\n\n"): the separators are the occurrences of "\n\n" found left to
\* right without overlap, so in a run of line breaks they start at its 1st,
\* 3rd, ... character
SplitBlank(s) ==
    LET L == Len(s)
        IsSep(p) == /\ p < L
                    /\ s[p] = "\n"
                    /\ s[p + 1] = "\n"
                    /\ NewlinesBefore(s, p) % 2 = 0
        starts == SelectSeq([p \in 1..L |-> p], IsSep)
        n == Len(starts)
    IN  [k \in 1..(n + 1) |->
            SubSeq(s, IF k = 1 THEN 1 ELSE starts[k - 1] + 2,
                      IF k = n + 1 THEN L ELSE starts[k] - 1)]

NonEmpty(blk) == blk # <<>>

StripAll(blks) == [k \in 1..Len(blks) |-> strip(blks[k])]

\* [blk.strip() for blk in s.split("\n\n") if blk.strip()]
split_sections(s) == SelectSeq(StripAll(SplitBlank(s)), NonEmpty)

(***************************************************************************)
(* difflib.SequenceMatcher(a, b, autojunk=False) with no junk predicate,   *)
(* as diff_sections constructs it: find_longest_match,                     *)
(* get_matching_blocks and get_opcodes of the standard library.            *)
(***************************************************************************)
\* a[i:i+k] == b[j:j+k]
SameRun(a, b, i, j, k) == \A d \in 0..(k - 1) : At(a, i + d) = At(b, j + d)

\* tuple order on pairs (i, j)
PairLess(x, y) == x[1] < y[1] \/ (x[1] = y[1] /\ x[2] < y[2])

\* find_longest_match(alo, ahi, blo, bhi) with no junk: the longest block
\* a[i:i+k] == b[j:j+k] inside the window; of the longest blocks the one that
\* starts earliest in a, and of those the one that starts earliest in b;
\* (alo, blo, 0) when the window has no common element
find_longest_match(a, b, alo, ahi, blo, bhi) ==
    LET common == {p \in (alo..(ahi - 1)) \X (blo..(bhi - 1)) : At(a, p[1]) = At(b, p[2])}
        Fits(p, k) == p[1] + k <= ahi /\ p[2] + k <= bhi /\ SameRun(a, b, p[1], p[2], k)
        sizes == {k \in 1..Min(ahi - alo, bhi - blo) : \E p \in common : Fits(p, k)}
        bestsize == CHOOSE k \in sizes : \A m \in sizes : m <= k
        longest == {p \in common : Fits(p, bestsize)}
        first == CHOOSE p \in longest : \A q \in longest : p = q \/ PairLess(p, q)
    IN  IF common = {} THEN <<alo, blo, 0>> ELSE <<first[1], first[2], bestsize>>

\* "while queue": queue.pop() takes the last entry
RECURSIVE QueueLoop(_, _, _, _)
QueueLoop(a, b, queue, blocks) ==
    IF queue = <<>> THEN blocks
    ELSE LET top == queue[Len(queue)]
             rest == SubSeq(queue, 1, Len(queue) - 1)
             alo == top[1]
             ahi == top[2]
             blo == top[3]
             bhi == top[4]
             x == find_longest_match(a, b, alo, ahi, blo, bhi)
             i == x[1]
             j == x[2]
             k == x[3]
             q1 == IF k # 0 /\ alo < i /\ blo < j
                   THEN Append(rest, <<alo, i, blo, j>>) ELSE rest
             q2 == IF k # 0 /\ i + k < ahi /\ j + k < bhi
                   THEN Append(q1, <<i + k, ahi, j + k, bhi>>) ELSE q1
         IN  QueueLoop(a, b, q2, IF k # 0 THEN Append(blocks, x) ELSE blocks)

\* tuple order on (i, j, k)
TripleLess(x, y) ==
    \/ x[1] < y[1]
    \/ x[1] = y[1] /\ x[2] < y[2]
    \/ x[1] = y[1] /\ x[2] = y[2] /\ x[3] < y[3]

RECURSIVE Insert(_, _)
Insert(x, sorted) ==
    IF sorted = <<>> THEN <<x>>
    ELSE IF TripleLess(x, Head(sorted)) THEN <<x>> \o sorted
    ELSE <<Head(sorted)>> \o Insert(x, Tail(sorted))

\* matching_blocks.sort()
RECURSIVE SortBlocks(_)
SortBlocks(blocks) ==
    IF blocks = <<>> THEN <<>> ELSE Insert(Head(blocks), SortBlocks(Tail(blocks)))

\* the loop collapsing adjacent blocks; cur is (i1, j1, k1)
RECURSIVE Collapse(_, _, _)
Collapse(blocks, cur, non_adjacent) ==
    IF blocks = <<>>
    THEN IF cur[3] # 0 THEN Append(non_adjacent, cur) ELSE non_adjacent
    ELSE LET nxt == Head(blocks)
         IN  IF cur[1] + cur[3] = nxt[1] /\ cur[2] + cur[3] = nxt[2]
             THEN Collapse(Tail(blocks), <<cur[1], cur[2], cur[3] + nxt[3]>>, non_adjacent)
             ELSE Collapse(Tail(blocks), nxt,
                           IF cur[3] # 0 THEN Append(non_adjacent, cur) ELSE non_adjacent)

\* a faulty variant: the closing block (len(a), len(b), 0) is not appended
get_matching_blocksNoSentinel(a, b) ==
    Collapse(SortBlocks(QueueLoop(a, b, <<<<0, Len(a), 0, Len(b)>>>>, <<>>)), <<0, 0, 0>>, <<>>)

get_matching_blocks(a, b) ==
    LET la == Len(a)
        lb == Len(b)
        found == SortBlocks(QueueLoop(a, b, <<<<0, la, 0, lb>>>>, <<>>))
    IN  Append(Collapse(found, <<0, 0, 0>>, <<>>), <<la, lb, 0>>)

Opcode(tag, i1, i2, j1, j2) == [tag |-> tag, i1 |-> i1, i2 |-> i2, j1 |-> j1, j2 |-> j2]

\* the loop of get_opcodes over the matching blocks, from position (i, j)
RECURSIVE OpcodeLoop(_, _, _, _)
OpcodeLoop(blocks, i, j, answer) ==
    IF blocks = <<>> THEN answer
    ELSE LET ai == Head(blocks)[1]
             bj == Head(blocks)[2]
             size == Head(blocks)[3]
             tag == IF i < ai /\ j < bj THEN "replace"
                    ELSE IF i < ai THEN "delete"
                    ELSE IF j < bj THEN "insert"
                    ELSE ""
             ans1 == IF tag # "" THEN Append(answer, Opcode(tag, i, ai, j, bj)) ELSE answer
             ans2 == IF size # 0
                     THEN Append(ans1, Opcode("equal", ai, ai + size, bj, bj + size))
                     ELSE ans1
         IN  OpcodeLoop(Tail(blocks), ai + size, bj + size, ans2)

get_opcodes(a, b) == OpcodeLoop(get_matching_blocks(a, b), 0, 0, <<>>)

(***************************************************************************)
(* str.lower() and str.find()                                              *)
(***************************************************************************)
\* the characters of the model that str.lower() changes; "U+0130" is LATIN
\* CAPITAL LETTER I WITH DOT ABOVE, whose lower case is the two characters
\* "i" and "U+0307" (COMBINING DOT ABOVE)
LowerTable ==
    ("A" :> <<"a">>) @@ ("D" :> <<"d">>) @@ ("F" :> <<"f">>) @@ ("P" :> <<"p">>)
    @@ ("T" :> <<"t">>) @@ ("X" :> <<"x">>) @@ ("U+0130" :> <<"i", "U+0307">>)

LowerChar(c) == IF c \in DOMAIN LowerTable THEN LowerTable[c] ELSE <<c>>

\* s.lower() (by halves)
RECURSIVE lower(_)
lower(s) ==
    IF s = <<>> THEN <<>>
    ELSE IF Len(s) = 1 THEN LowerChar(s[1])
    ELSE LET h == Len(s) \div 2
         IN  lower(SubSeq(s, 1, h)) \o lower(SubSeq(s, h + 1, Len(s)))

\* hay.find(needle): the lowest index of an occurrence, -1 when there is none
find(hay, needle) ==
    LET hits == {i \in 0..(Len(hay) - Len(needle)) :
                    SubSeq(hay, i + 1, i + Len(needle)) = needle}
    IN  IF hits = {} THEN -1 ELSE CHOOSE i \in hits : \A j \in hits : i <= j

\* s.endswith(suffix)
endswith(s, suffix) ==
    Len(s) >= Len(suffix) /\ SubSeq(s, Len(s) - Len(suffix) + 1, Len(s)) = suffix

(***************************************************************************)
(* read_pdf_and_offsets                                                    *)
(***************************************************************************)
\* what p.extract_text() returns: None, or a string
NoText == [none |-> TRUE]

Extracted(t) == [none |-> FALSE, text |-> t]

\* p.extract_text() or ""
PageText(p) == IF p.none THEN <<>> ELSE p.text

\* the value of total when page k (0-based) is reached
RECURSIVE TotalBefore(_, _)
TotalBefore(pages, k) ==
    IF k = 0 THEN 0 ELSE TotalBefore(pages, k - 1) + Len(PageText(At(pages, k - 1)))

HttpError(status, detail) == [status |-> status, detail |-> detail]

\* pdf is what PdfReader makes of the bytes: [ok |-> FALSE] when it raises,
\* else [ok |-> TRUE, pages |-> the extract_text() result of each page]
read_pdf_and_offsets(pdf) ==
    IF ~pdf.ok THEN HttpError(400, "Could not process PDF")
    ELSE LET chunks == [k \in 1..Len(pdf.pages) |-> PageText(pdf.pages[k])]
             offsets == [k \in 1..Len(pdf.pages) |-> TotalBefore(pdf.pages, k - 1)]
         IN  [status |-> 200, text |-> join(<<"\n">>, chunks), offsets |-> offsets,
              pages |-> Len(pdf.pages)]

(***************************************************************************)
(* classify_overall_risk                                                   *)
(***************************************************************************)
Risk(text, clause, severity) == [text |-> text, clause |-> clause, severity |-> severity]

\* a faulty variant: the medium test comes first
classify_overall_riskMediumFirst(risks) ==
    IF \E k \in 1..Len(risks) : risks[k].severity = "medium" THEN "medium"
    ELSE IF \E k \in 1..Len(risks) : risks[k].severity = "high" THEN "high"
    ELSE "low"

classify_overall_risk(risks) ==
    IF \E k \in 1..Len(risks) : risks[k].severity = "high" THEN "high"
    ELSE IF \E k \in 1..Len(risks) : risks[k].severity = "medium" THEN "medium"
    ELSE "low"

(***************************************************************************)
(* build_highlights                                                        *)
(***************************************************************************)
Obligation(text, clause) == [text |-> text, clause |-> clause]

Clause(name, status, description) == [name |-> name, status |-> status, description |-> description]

Highlight(kind, clause, text, rangeStart, rangeEnd) ==
    [kind |-> kind, clause |-> clause, text |-> text,
     rangeStart |-> rangeStart, rangeEnd |-> rangeEnd]

\* add(kind, snippet, clause): what one call appends to hl
add(text, kind, snippet, clause) ==
    IF snippet = <<>> THEN <<>>
    ELSE LET q == Prefix(strip(snippet), MaxSnippet)
             i == find(lower(text), lower(q))
         IN  IF i >= 0 THEN <<Highlight(kind, clause, q, i, i + Len(q))>> ELSE <<>>

\* c.description or c.name
ClauseSnippet(c) == IF c.description # <<>> THEN c.description ELSE c.name

RECURSIVE AddObligations(_, _)
AddObligations(text, obligations) ==
    IF obligations = <<>> THEN <<>>
    ELSE add(text, "obligation", Head(obligations).text, Head(obligations).clause)
         \o AddObligations(text, Tail(obligations))

RECURSIVE AddRisks(_, _)
AddRisks(text, risks) ==
    IF risks = <<>> THEN <<>>
    ELSE add(text, "risk", Head(risks).text, Head(risks).clause)
         \o AddRisks(text, Tail(risks))

RECURSIVE AddClauses(_, _)
AddClauses(text, clauses) ==
    IF clauses = <<>> THEN <<>>
    ELSE add(text, "clause", ClauseSnippet(Head(clauses)), None)
         \o AddClauses(text, Tail(clauses))

build_highlights(text, obligations, risks, clauses) ==
    AddObligations(text, obligations) \o AddRisks(text, risks) \o AddClauses(text, clauses)

(***************************************************************************)
(* diff_sections                                                           *)
(***************************************************************************)
Change(type, section, description, impact) ==
    [type |-> type, section |-> section, description |-> description, impact |-> impact]

\* the advisory strings; the typographic apostrophe and quotation marks of the
\* source are written in ASCII
ImpactRemoved == "May remove obligations/rights present in earlier version."
ImpactAdded == "Introduces new terms/obligations that weren't in the original."
ImpactModified == "Terms altered; review closely to confirm risk/obligation changes."

\* s[:n] + ("..." if len(s) > n else "")
Ellipsis(s, n) == Prefix(s, n) \o (IF Len(s) > n THEN <<".", ".", ".">> ELSE <<>>)

RemovedChange(a_secs, idx) ==
    Change("removed", "Section " \o ToString(idx + 1),
           Ellipsis(At(a_secs, idx), MaxSectionDesc), ImpactRemoved)

AddedChange(b_secs, idx) ==
    Change("added", "Section " \o ToString(idx + 1),
           Ellipsis(At(b_secs, idx), MaxSectionDesc), ImpactAdded)

ModifiedChange(a_secs, b_secs, op) ==
    LET a_join == Prefix(join(<<" ">>, Slice(a_secs, op.i1, op.i2)), MaxJoinDesc)
        b_join == Prefix(join(<<" ">>, Slice(b_secs, op.j1, op.j2)), MaxJoinDesc)
    IN  Change("modified", "Sections " \o ToString(op.i1 + 1) \o "-" \o ToString(op.i2),
               <<"Changed from: <<">> \o a_join \o <<">> -> <<">> \o b_join \o <<">>.">>,
               ImpactModified)

\* a faulty variant: an equal opcode is not skipped and falls through to a record
ChangesOfNoSkip(op, a_secs, b_secs) ==
    IF op.tag = "delete"
    THEN [k \in 1..(op.i2 - op.i1) |-> RemovedChange(a_secs, op.i1 + k - 1)]
    ELSE IF op.tag = "insert"
    THEN [k \in 1..(op.j2 - op.j1) |-> AddedChange(b_secs, op.j1 + k - 1)]
    ELSE <<ModifiedChange(a_secs, b_secs, op)>>

\* a faulty variant: a replace opcode emits one record per index of its A range
ChangesOfPerIndex(op, a_secs, b_secs) ==
    IF op.tag = "equal" THEN <<>>
    ELSE IF op.tag = "delete"
    THEN [k \in 1..(op.i2 - op.i1) |-> RemovedChange(a_secs, op.i1 + k - 1)]
    ELSE IF op.tag = "insert"
    THEN [k \in 1..(op.j2 - op.j1) |-> AddedChange(b_secs, op.j1 + k - 1)]
    ELSE [k \in 1..(op.i2 - op.i1) |-> ModifiedChange(a_secs, b_secs, op)]

\* the body of "for tag, i1, i2, j1, j2 in sm.get_opcodes()": what one opcode appends
ChangesOf(op, a_secs, b_secs) ==
    IF op.tag = "equal" THEN <<>>
    ELSE IF op.tag = "delete"
    THEN [k \in 1..(op.i2 - op.i1) |-> RemovedChange(a_secs, op.i1 + k - 1)]
    ELSE IF op.tag = "insert"
    THEN [k \in 1..(op.j2 - op.j1) |-> AddedChange(b_secs, op.j1 + k - 1)]
    ELSE IF op.tag = "replace"
    THEN <<ModifiedChange(a_secs, b_secs, op)>>
    ELSE <<>>

RECURSIVE ChangeLoop(_, _, _, _)
ChangeLoop(ops, a_secs, b_secs, changes) ==
    IF ops = <<>> THEN changes
    ELSE ChangeLoop(Tail(ops), a_secs, b_secs, changes \o ChangesOf(Head(ops), a_secs, b_secs))

\* a faulty variant: the cap keeps the last entries
CapLast(changes) ==
    SubSeq(changes, Len(changes) - Min(Len(changes), MaxChanges) + 1, Len(changes))

\* changes[:100]
Cap(changes) == Prefix(changes, MaxChanges)

\* difflib.SequenceMatcher(a=a_secs, b=b_secs, autojunk=False).get_opcodes()
SequenceMatcher(a_secs, b_secs) == get_opcodes(a_secs, b_secs)

\* the locals of one run of diff_sections, and what it returns
DiffRun(a, b) ==
    LET a_secs == split_sections(a)
        b_secs == split_sections(b)
        ops == SequenceMatcher(a_secs, b_secs)
        changes == ChangeLoop(ops, a_secs, b_secs, <<>>)
    IN  [a_secs |-> a_secs, b_secs |-> b_secs, opcodes |-> ops,
         changes |-> changes, returned |-> Cap(changes)]

diff_sections(a, b) == DiffRun(a, b).returned

(***************************************************************************)
(* Inputs of diff_sections                                                 *)
(***************************************************************************)
SeqsUpTo(S, n) == UNION {[1..k -> S] : k \in 0..n}

Rep(n, x) == [k \in 1..n |-> x]

BlankLine == <<"\n", "\n">>

FromSections(secs) == join(BlankLine, secs)

SecVocab == {<<"a">>, <<"b">>, <<"c", "d">>}

SectionTexts == {FromSections(secs) : secs \in SeqsUpTo(SecVocab, MaxSecs)}

RawTexts == SeqsUpTo({"a", " ", "\n"}, MaxTextLen)

BigCounts == {0, MaxChanges \div 2, MaxChanges - 1, MaxChanges + MaxOver}

\* n sections only in a, one common section, m sections only in b
BigPair(n, m) ==
    <<FromSections(Rep(n, <<"a">>) \o <<<<"b">>>>), FromSections(<<<<"b">>>> \o Rep(m, <<"c">>))>>

DiffInputs ==
    (SectionTexts \X SectionTexts)
    \cup {<<t, t>> : t \in RawTexts}
    \cup {BigPair(n, m) : n \in BigCounts, m \in BigCounts}

InitDiff ==
    /\ pc = "call"
    /\ args \in {[fn |-> "diff_sections", a |-> p[1], b |-> p[2]] : p \in DiffInputs}
    /\ ret = None

DiffSections ==
    /\ pc = "call"
    /\ args.fn = "diff_sections"
    /\ ret' = DiffRun(args.a, args.b)
    /\ pc' = "return"
    /\ UNCHANGED args

NextDiff == DiffSections

SpecDiff == InitDiff /\ [][NextDiff]_vars

(***************************************************************************)
(* Properties of diff_sections (checked under SpecDiff)                    *)
(***************************************************************************)
DiffReturned == pc = "return" /\ args.fn = "diff_sections"

\* C1: the opcodes inside diff_sections are listed in increasing order of
\* their rangeA and rangeB starts, their rangeA intervals [i1,i2) tile
\* [0,len(A)) without gap or overlap and their rangeB intervals [j1,j2) tile
\* [0,len(B)); with both sequences empty there is no opcode.
C1_OpcodesPartition ==
    DiffReturned =>
        LET ops == ret.opcodes
            n == Len(ops)
            la == Len(ret.a_secs)
            lb == Len(ret.b_secs)
        IN  /\ n = 0 => la = 0 /\ lb = 0
            /\ n > 0 => /\ ops[1].i1 = 0 /\ ops[1].j1 = 0
                        /\ ops[n].i2 = la /\ ops[n].j2 = lb
            /\ \A k \in 1..n : ops[k].i1 <= ops[k].i2 /\ ops[k].j1 <= ops[k].j2
            /\ \A k \in 1..(n - 1) :
                  /\ ops[k + 1].i1 = ops[k].i2 /\ ops[k + 1].j1 = ops[k].j2
                  /\ ops[k].i1 <= ops[k + 1].i1 /\ ops[k].j1 <= ops[k + 1].j1

\* a run whose opcodes hold a replace, an equal and a trailing insert or delete
C1_Witness ==
    /\ DiffReturned
    /\ Len(ret.opcodes) >= 3
    /\ \E k \in 1..Len(ret.opcodes) : ret.opcodes[k].tag = "replace"
    /\ ret.opcodes[Len(ret.opcodes)].tag \in {"insert", "delete"}

\* C2: diffing a text against an identical copy of itself returns no Change.
C2_SelfDiffEmpty ==
    (DiffReturned /\ args.a = args.b) => ret.returned = <<>>

\* a self-diff of a text of two sections or more
C2_Witness ==
    DiffReturned /\ args.a = args.b /\ Len(ret.a_secs) >= 2 /\ ret.returned = <<>>

\* C8: the returned list has at most 100 entries and is the first
\* min(100, n) of the n Change records built from the opcodes, in order.
C8_CapKeepsPrefix ==
    DiffReturned =>
        /\ Len(ret.returned) <= MaxChanges
        /\ Len(ret.returned) = Min(MaxChanges, Len(ret.changes))
        /\ \A k \in 1..Len(ret.returned) : ret.returned[k] = ret.changes[k]

\* a run that built more than 100 records, of both the removed and the added type
C8_Witness ==
    /\ DiffReturned
    /\ Len(ret.changes) > MaxChanges
    /\ Len(ret.returned) = MaxChanges
    /\ ret.changes[1].type = "removed"
    /\ ret.returned[MaxChanges].type = "added"

\* the number of Change records one opcode stands for
RecordsOf(op) ==
    IF op.tag = "delete" THEN op.i2 - op.i1
    ELSE IF op.tag = "insert" THEN op.j2 - op.j1
    ELSE IF op.tag = "replace" THEN 1
    ELSE 0

\* the number of Change records of the opcodes before the k-th
RECURSIVE RecordsBefore(_, _)
RecordsBefore(ops, k) ==
    IF k <= 1 THEN 0 ELSE RecordsBefore(ops, k - 1) + RecordsOf(ops[k - 1])

\* C9: before the cap the Change list is, opcode after opcode in document
\* order: nothing for equal; one removed record per index idx of a delete
\* range, labelled "Section {idx+1}"; one added record per index idx of an
\* insert range, labelled "Section {idx+1}"; exactly one modified record for a
\* replace, labelled "Sections {i1+1}-{i2}", whatever the two range lengths.
C9_ChangesFollowOpcodes ==
    DiffReturned =>
        LET ops == ret.opcodes
            ch == ret.changes
        IN  /\ Len(ch) = RecordsBefore(ops, Len(ops) + 1)
            /\ \A k \in 1..Len(ops) :
                  LET op == ops[k]
                      base == RecordsBefore(ops, k)
                  IN  /\ op.tag = "delete" =>
                            \A idx \in op.i1..(op.i2 - 1) :
                                /\ ch[base + idx - op.i1 + 1].type = "removed"
                                /\ ch[base + idx - op.i1 + 1].section
                                      = "Section " \o ToString(idx + 1)
                      /\ op.tag = "insert" =>
                            \A idx \in op.j1..(op.j2 - 1) :
                                /\ ch[base + idx - op.j1 + 1].type = "added"
                                /\ ch[base + idx - op.j1 + 1].section
                                      = "Section " \o ToString(idx + 1)
                      /\ op.tag = "replace" =>
                            /\ ch[base + 1].type = "modified"
                            /\ ch[base + 1].section
                                  = "Sections " \o ToString(op.i1 + 1) \o "-" \o ToString(op.i2)

\* a run with a replace of ranges of different lengths, two sections or more
\* on the A side, followed by records of another opcode
C9_Witness ==
    /\ DiffReturned
    /\ \E k \in 1..Len(ret.opcodes) :
          /\ ret.opcodes[k].tag = "replace"
          /\ ret.opcodes[k].i2 - ret.opcodes[k].i1 >= 2
          /\ ret.opcodes[k].j2 - ret.opcodes[k].j1 = 1
          /\ \E m \in (k + 1)..Len(ret.opcodes) : ret.opcodes[m].tag \in {"insert", "delete"}

(***************************************************************************)
(* classify_overall_risk applied to every list of up to MaxRisks risks     *)
(***************************************************************************)
Severities == {"low", "medium", "high"}

RiskLists ==
    {[k \in 1..Len(sv) |-> Risk(<<"a">>, "c", sv[k])] : sv \in SeqsUpTo(Severities, MaxRisks)}

InitRisk ==
    /\ pc = "call"
    /\ args \in {[fn |-> "classify_overall_risk", risks |-> r] : r \in RiskLists}
    /\ ret = None

ClassifyOverallRisk ==
    /\ pc = "call"
    /\ args.fn = "classify_overall_risk"
    /\ ret' = classify_overall_risk(args.risks)
    /\ pc' = "return"
    /\ UNCHANGED args

NextRisk == ClassifyOverallRisk

SpecRisk == InitRisk /\ [][NextRisk]_vars

RiskReturned == pc = "return" /\ args.fn = "classify_overall_risk"

Rank(sev) == IF sev = "high" THEN 2 ELSE IF sev = "medium" THEN 1 ELSE 0

\* C10: classify_overall_risk returns the maximum severity of the list under
\* low < medium < high, and low for the empty list: no risk of the list ranks
\* above the result, and a result other than low is the severity of some risk.
C10_OverallIsMaximum ==
    RiskReturned =>
        LET present == {args.risks[k].severity : k \in 1..Len(args.risks)}
        IN  /\ ret \in Severities
            /\ \A sev \in present : Rank(sev) <= Rank(ret)
            /\ ret \in present \/ ret = "low"
            /\ args.risks = <<>> => ret = "low"

\* a list holding all three severities with medium before high
C10_Witness ==
    /\ RiskReturned
    /\ Len(args.risks) >= 3
    /\ args.risks[1].severity = "low"
    /\ args.risks[2].severity = "medium"
    /\ args.risks[3].severity = "high"
    /\ ret = "high"

(***************************************************************************)
(* build_highlights applied to short texts and candidate lists             *)
(***************************************************************************)
DocChars == {"a", "A", "U+0130", " "}

LongText == Rep(MaxSnippet + 1, "a")

DocTexts == SeqsUpTo(DocChars, MaxDocLen) \cup {LongText}

Snippets ==
    {<<>>, <<" ">>, <<"a">>, <<"A">>, <<" ", "a">>, <<"U+0130">>, <<"a", "A">>, LongText}

ObligationLists ==
    {<<>>, <<Obligation(<<"a">>, "c1"), Obligation(<<"A">>, "c2")>>}
    \cup {<<Obligation(sn, "c1")>> : sn \in Snippets}

RiskCandidates ==
    {<<>>, <<Risk(<<"a">>, "c3", "high")>>, <<Risk(<<" ">>, "c3", "low")>>}

ClauseLists ==
    {<<>>, <<Clause(<<"a">>, "standard", <<>>)>>,
     <<Clause(<<"a">>, "unusual", <<"A", " ">>)>>,
     <<Clause(<<"a">>, "restrictive", <<" ">>)>>}

InitHighlights ==
    /\ pc = "call"
    /\ args \in {[fn |-> "build_highlights", text |-> t, obligations |-> o,
                  risks |-> r, clauses |-> c] :
                    t \in DocTexts, o \in ObligationLists,
                    r \in RiskCandidates, c \in ClauseLists}
    /\ ret = None

BuildHighlights ==
    /\ pc = "call"
    /\ args.fn = "build_highlights"
    /\ ret' = build_highlights(args.text, args.obligations, args.risks, args.clauses)
    /\ pc' = "return"
    /\ UNCHANGED args

NextHighlights == BuildHighlights

SpecHighlights == InitHighlights /\ [][NextHighlights]_vars

HighlightsReturned == pc = "return" /\ args.fn = "build_highlights"

\* C3: every Highlight has len(text) = rangeEnd - rangeStart,
\* 0 <= rangeStart <= rangeEnd <= len(analyzed text), and the analyzed text at
\* [rangeStart, rangeEnd) equals the Highlight's text case-insensitively.
C3_HighlightRanges ==
    HighlightsReturned =>
        \A k \in 1..Len(ret) :
            LET h == ret[k]
            IN  /\ Len(h.text) = h.rangeEnd - h.rangeStart
                /\ 0 <= h.rangeStart
                /\ h.rangeStart <= h.rangeEnd
                /\ h.rangeEnd <= Len(args.text)
                /\ lower(Slice(args.text, h.rangeStart, h.rangeEnd)) = lower(h.text)

\* the snippets of the candidates in traversal order
RECURSIVE ClauseSnippets(_)
ClauseSnippets(clauses) ==
    IF clauses = <<>> THEN <<>>
    ELSE <<ClauseSnippet(Head(clauses))>> \o ClauseSnippets(Tail(clauses))

CandidateSnippets ==
    [k \in 1..Len(args.obligations) |-> args.obligations[k].text]
    \o [k \in 1..Len(args.risks) |-> args.risks[k].text]
    \o ClauseSnippets(args.clauses)

\* the snippet is not empty after stripping and, stripped and cut to 160
\* characters, occurs in the text case-insensitively
Locatable(text, snippet) ==
    /\ strip(snippet) # <<>>
    /\ find(lower(text), lower(Prefix(strip(snippet), MaxSnippet))) >= 0

\* C4: a candidate whose snippet is empty after stripping, or does not occur
\* in the analyzed text, produces no Highlight: there are no more Highlights
\* than candidates with a locatable snippet.
C4_SkipsEmptyOrMissing ==
    HighlightsReturned =>
        Len(ret) <= Cardinality({k \in 1..Len(CandidateSnippets) :
                                    Locatable(args.text, CandidateSnippets[k])})

(***************************************************************************)
(* read_pdf_and_offsets applied to documents of up to MaxPages pages       *)
(***************************************************************************)
PageTexts == {NoText, Extracted(<<"a">>), Extracted(<<"a", "b">>), Extracted(<<" ">>)}

PdfFiles ==
    {[ok |-> FALSE]} \cup {[ok |-> TRUE, pages |-> ps] : ps \in SeqsUpTo(PageTexts, MaxPages)}

InitPdf ==
    /\ pc = "call"
    /\ args \in {[fn |-> "read_pdf_and_offsets", pdf |-> f] : f \in PdfFiles}
    /\ ret = None

ReadPdfAndOffsets ==
    /\ pc = "call"
    /\ args.fn = "read_pdf_and_offsets"
    /\ ret' = read_pdf_and_offsets(args.pdf)
    /\ pc' = "return"
    /\ UNCHANGED args

NextPdf == ReadPdfAndOffsets

SpecPdf == InitPdf /\ [][NextPdf]_vars

PdfReturned == pc = "return" /\ args.fn = "read_pdf_and_offsets"

\* the index in the joined text at which page i (0-based) begins: the lengths
\* of the pages before it and one separator after each of them
RECURSIVE PageStart(_, _)
PageStart(pages, i) ==
    IF i = 0 THEN 0 ELSE PageStart(pages, i - 1) + Len(PageText(At(pages, i - 1))) + 1

\* C5: pageOffsets[i] is the index in the extracted text at which page i
\* begins: the lengths of the pages before i plus the one separator character
\* inserted after each of them.
C5_OffsetsCountSeparators ==
    (PdfReturned /\ ret.status = 200) =>
        \A i \in 0..(ret.pages - 1) : At(ret.offsets, i) = PageStart(args.pdf.pages, i)

(***************************************************************************)
(* The /analyze and /compare handlers                                      *)
(***************************************************************************)
\* round(n / 1024): Python rounds a half to the even neighbour
RoundKB(n) ==
    LET q == n \div 1024
        r == n % 1024
    IN  IF r < 512 THEN q
        ELSE IF r > 512 THEN q + 1
        ELSE IF q % 2 = 0 THEN q ELSE q + 1

\* list(dict.fromkeys(tags)): the first occurrence of each tag, in order
Dedupe(tags) ==
    LET First(k) == \A m \in 1..(k - 1) : tags[m] # tags[k]
        keep == SelectSeq([k \in 1..Len(tags) |-> k], First)
    IN  [k \in 1..Len(keep) |-> tags[keep[k]]]

\* d is what docx.Document makes of the bytes: [ok |-> FALSE] when it raises,
\* else [ok |-> TRUE, paragraphs |-> the text of each paragraph]
read_docx(d) ==
    IF ~d.ok THEN HttpError(400, "Could not process DOCX")
    ELSE [status |-> 200, text |-> join(<<"\n">>, d.paragraphs)]

DotPdf == <<".", "p", "d", "f">>
DotDocx == <<".", "d", "o", "c", "x">>
DotTxt == <<".", "t", "x", "t">>

\* the result of the LLM chain: the primary model's outcome and, when that is
\* a quota error, the fallback model's
LLMFailure(llm) ==
    IF llm.primary.kind = "quota"
    THEN IF llm.fallback.kind = "quota"
         THEN HttpError(429, "Gemini API quota exceeded. Enable billing/increase quota, or try a different model/key.")
         ELSE HttpError(500, "AI processing failed (fallback).")
    ELSE HttpError(500, "AI processing failed.")

LLMSucceeds(llm) ==
    llm.primary.kind = "ok" \/ (llm.primary.kind = "quota" /\ llm.fallback.kind = "ok")

LLMOut(llm) == IF llm.primary.kind = "ok" THEN llm.primary.out ELSE llm.fallback.out

\* the text, page_offsets, pages and ftype of analyze after the extension
\* test; page_offsets and pages keep their defaults [] and 1 outside the pdf
\* branch
AnalyzeExtract(up) ==
    LET name == lower(up.filename)
    IN  IF endswith(name, DotPdf)
        THEN LET r == read_pdf_and_offsets(up.decoded)
             IN  IF r.status # 200 THEN r
                 ELSE [status |-> 200, text |-> r.text, page_offsets |-> r.offsets,
                       pages |-> r.pages, ftype |-> "pdf"]
        ELSE IF endswith(name, DotDocx)
        THEN LET r == read_docx(up.decoded)
             IN  IF r.status # 200 THEN r
                 ELSE [status |-> 200, text |-> r.text, page_offsets |-> <<>>,
                       pages |-> 1, ftype |-> "docx"]
        ELSE IF endswith(name, DotTxt)
        THEN [status |-> 200, text |-> up.decoded.text, page_offsets |-> <<>>,
              pages |-> 1, ftype |-> "txt"]
        ELSE HttpError(400, "Unsupported file. Upload PDF/DOCX/TXT.")

AnalysisReport(ex, text, up, out) ==
    [status |-> 200,
     summary |-> out.summary,
     obligations |-> out.obligations,
     risks |-> out.risks,
     clauses |-> out.clauses,
     riskLevel |-> classify_overall_risk(out.risks),
     tags |-> Prefix(Dedupe(out.tags), MaxTags),
     size |-> ToString(RoundKB(up.nbytes)) \o " KB",
     type |-> ex.ftype,
     pages |-> ex.pages,
     analyzedText |-> text,
     pageOffsets |-> ex.page_offsets,
     highlights |-> build_highlights(text, out.obligations, out.risks, out.clauses)]

\* analyze(document, file), the LLM answering as llm says
analyze(document, file, llm) ==
    LET up == IF document.present THEN document ELSE file
    IN  IF ~up.present THEN HttpError(400, "No file uploaded.")
        ELSE LET ex == AnalyzeExtract(up)
             IN  IF ex.status # 200 THEN ex
                 ELSE LET stripped == strip(ex.text)
                          text == Prefix(stripped, MAX_CHARS)
                      IN  IF stripped = <<>>
                          THEN HttpError(400, "Could not extract any text from the document.")
                          ELSE IF ~LLMSucceeds(llm) THEN LLMFailure(llm)
                          ELSE AnalysisReport(ex, text, up, LLMOut(llm))

\* extract(name, raw) of compare
extract(up) ==
    LET name == lower(up.filename)
    IN  IF endswith(name, DotPdf)
        THEN LET r == read_pdf_and_offsets(up.decoded)
             IN  IF r.status # 200 THEN r ELSE [status |-> 200, text |-> r.text]
        ELSE IF endswith(name, DotDocx) THEN read_docx(up.decoded)
        ELSE IF endswith(name, DotTxt) THEN [status |-> 200, text |-> up.decoded.text]
        ELSE HttpError(400, "Unsupported type for {name}. Use PDF/DOCX/TXT.")

\* a faulty variant: one empty version is enough to reject
BothEmptyEither(a_text, b_text) == a_text = <<>> \/ b_text = <<>>

\* "not a_text and not b_text"
BothEmpty(a_text, b_text) == a_text = <<>> /\ b_text = <<>>

\* fileA.filename or "Version A"
Title(up, default) == IF up.filename # <<>> THEN up.filename ELSE <<default>>

compare(fileA, fileB) ==
    LET ea == extract(fileA)
        eb == extract(fileB)
    IN  IF ea.status # 200 THEN ea
        ELSE IF eb.status # 200 THEN eb
        ELSE LET a_strip == strip(ea.text)
                 b_strip == strip(eb.text)
                 a_text == Prefix(a_strip, MAX_CHARS)
                 b_text == Prefix(b_strip, MAX_CHARS)
             IN  IF BothEmpty(a_strip, b_strip)
                 THEN HttpError(400, "Could not extract text from either file.")
                 ELSE [status |-> 200,
                       versionA |-> [title |-> Title(fileA, "Version A"), content |-> a_text],
                       versionB |-> [title |-> Title(fileB, "Version B"), content |-> b_text],
                       changes |-> diff_sections(a_text, b_text)]

(***************************************************************************)
(* Requests to the service                                                 *)
(***************************************************************************)
NoUpload == [present |-> FALSE]

Upload(filename, nbytes, decoded) ==
    [present |-> TRUE, filename |-> filename, nbytes |-> nbytes, decoded |-> decoded]

Named(ext) == <<"x">> \o ext

PdfUploads ==
    {Upload(Named(DotPdf), 512, [ok |-> FALSE]),
     Upload(Named(DotPdf), 100, [ok |-> TRUE, pages |-> <<>>]),
     Upload(Named(DotPdf), 1536, [ok |-> TRUE, pages |-> <<NoText, Extracted(<<" ">>)>>]),
     Upload(Named(DotPdf), 2560,
            [ok |-> TRUE, pages |-> <<Extracted(<<"a">>), NoText, Extracted(<<"a", "b">>)>>]),
     Upload(Named(<<".", "P", "D", "F">>), 3000,
            [ok |-> TRUE, pages |-> <<Extracted(<<" ", "A">>), Extracted(<<"\n", "b">>)>>])}

DocxUploads ==
    {Upload(Named(DotDocx), 512, [ok |-> FALSE]),
     Upload(Named(DotDocx), 100, [ok |-> TRUE, paragraphs |-> <<>>]),
     Upload(Named(DotDocx), 1536, [ok |-> TRUE, paragraphs |-> <<<<" ">>, <<>>>>]),
     Upload(Named(DotDocx), 2560, [ok |-> TRUE, paragraphs |-> <<<<"a">>, <<>>, <<"b">>>>])}

\* len(raw) of the UTF-8 bytes that decode to t
Utf8Len(t) == Len(t) + Cardinality({k \in 1..Len(t) : t[k] = "U+0130"})

TxtUploads ==
    {Upload(Named(DotTxt), Utf8Len(t), [ok |-> TRUE, text |-> t]) :
        t \in {<<>>, <<" ", "\n">>, <<"a">>, <<"a", "\n", "\n", "b">>,
               <<"A", "\n", "\n", "b", "\n", "\n", "a">>, <<"U+0130", "a">>}}

OtherUploads ==
    {Upload(Named(<<".", "m", "d">>), 10, [ok |-> FALSE]), Upload(<<>>, 10, [ok |-> FALSE])}

Uploads == PdfUploads \cup DocxUploads \cup TxtUploads \cup OtherUploads

AnalyzeRequests ==
    {[endpoint |-> "/analyze", document |-> NoUpload, file |-> NoUpload]}
    \cup {[endpoint |-> "/analyze", document |-> u, file |-> NoUpload] : u \in Uploads}
    \cup {[endpoint |-> "/analyze", document |-> NoUpload, file |-> u] : u \in Uploads}
    \cup {[endpoint |-> "/analyze", document |-> u, file |-> Upload(Named(DotTxt), 1, [ok |-> TRUE, text |-> <<"b">>])] :
            u \in PdfUploads}

CompareRequests ==
    {[endpoint |-> "/compare", fileA |-> a, fileB |-> b] : a \in Uploads, b \in Uploads}

\* what the LLM chain can answer
NoOut == [summary |-> "", obligations |-> <<>>, risks |-> <<>>, clauses |-> <<>>, tags |-> <<>>]

LLMOuts ==
    {[summary |-> "s1", obligations |-> <<>>, risks |-> <<>>, clauses |-> <<>>, tags |-> <<>>],
     [summary |-> "s2",
      obligations |-> <<Obligation(<<"a">>, "c1"), Obligation(<<" ">>, "c2")>>,
      risks |-> <<Risk(<<"b">>, "c3", "medium"), Risk(<<"A">>, "c4", "high")>>,
      clauses |-> <<Clause(<<"b">>, "standard", <<>>)>>,
      tags |-> <<"t1", "t2", "t1", "t3", "t4", "t5", "t6", "t7">>],
     [summary |-> "s3", obligations |-> <<>>,
      risks |-> <<Risk(<<"z">>, "c3", "low")>>,
      clauses |-> <<Clause(<<"z">>, "unusual", <<"a">>)>>,
      tags |-> <<"t1">>]}

Answer(kind, out) == [kind |-> kind, out |-> out]

LLMRuns ==
    {[primary |-> Answer("ok", o), fallback |-> Answer("unused", NoOut)] : o \in LLMOuts}
    \cup {[primary |-> Answer("quota", NoOut), fallback |-> f] :
            f \in {Answer("ok", o) : o \in LLMOuts}
                  \cup {Answer("quota", NoOut), Answer("error", NoOut)}}
    \cup {[primary |-> Answer("error", NoOut), fallback |-> Answer("unused", NoOut)]}

Init ==
    /\ pc = "call"
    /\ args \in AnalyzeRequests \cup CompareRequests
    /\ ret = None

Analyze ==
    /\ pc = "call"
    /\ args.endpoint = "/analyze"
    /\ \E llm \in LLMRuns : ret' = analyze(args.document, args.file, llm)
    /\ pc' = "return"
    /\ UNCHANGED args

Compare ==
    /\ pc = "call"
    /\ args.endpoint = "/compare"
    /\ ret' = compare(args.fileA, args.fileB)
    /\ pc' = "return"
    /\ UNCHANGED args

Next == Analyze \/ Compare

Spec == Init /\ [][Next]_vars

(***************************************************************************)
(* Properties of the handlers (checked under Spec)                         *)
(***************************************************************************)
AnalyzeReturned == pc = "return" /\ args.endpoint = "/analyze"

CompareReturned == pc = "return" /\ args.endpoint = "/compare"

\* C6: the report of a successfully analyzed docx or txt document has
\* pageOffsets = [0] and pages = 1.
C6_NonPaginatedOffsets ==
    (AnalyzeReturned /\ ret.status = 200 /\ ret.type \in {"docx", "txt"}) =>
        ret.pageOffsets = <<0>> /\ ret.pages = 1

\* the extraction of an upload succeeded and its trimmed text is empty
EmptyExtraction(up) == extract(up).status = 200 /\ strip(extract(up).text) = <<>>

Extractable(up) == extract(up).status = 200

Analyzed == IF args.document.present THEN args.document ELSE args.file

EmptyAnalyzeError == HttpError(400, "Could not extract any text from the document.")

EmptyCompareError == HttpError(400, "Could not extract text from either file.")

\* C7 as stated: an extraction whose trimmed text is empty is rejected with
\* the empty-extraction error, in /analyze for the one document and in
\* /compare when either version is empty; no report comes from empty text.
C7_EmptyAlwaysRejected ==
    /\ (AnalyzeReturned /\ Analyzed.present /\ EmptyExtraction(Analyzed))
          => ret = EmptyAnalyzeError
    /\ (AnalyzeReturned /\ ret.status = 200) => ret.analyzedText # <<>>
    /\ (CompareReturned /\ Extractable(args.fileA) /\ Extractable(args.fileB)
          /\ (EmptyExtraction(args.fileA) \/ EmptyExtraction(args.fileB)))
          => ret = EmptyCompareError
    /\ (CompareReturned /\ ret.status = 200)
          => ret.versionA.content # <<>> /\ ret.versionB.content # <<>>

\* C7 amended: /analyze rejects a document whose trimmed text is empty;
\* /compare rejects with the empty-extraction error exactly when both
\* versions' trimmed texts are empty, and with exactly one version empty it
\* returns a report whose empty side has content "".
C7_EmptyRejectedWhenAllEmpty ==
    /\ (AnalyzeReturned /\ Analyzed.present /\ EmptyExtraction(Analyzed))
          => ret = EmptyAnalyzeError
    /\ (AnalyzeReturned /\ ret.status = 200) => ret.analyzedText # <<>>
    /\ (CompareReturned /\ Extractable(args.fileA) /\ Extractable(args.fileB)) =>
          /\ (EmptyExtraction(args.fileA) /\ EmptyExtraction(args.fileB))
                => ret = EmptyCompareError
          /\ ~(EmptyExtraction(args.fileA) /\ EmptyExtraction(args.fileB))
                => /\ ret.status = 200
                   /\ (ret.versionA.content = <<>>) = EmptyExtraction(args.fileA)
                   /\ (ret.versionB.content = <<>>) = EmptyExtraction(args.fileB)
    /\ (CompareReturned /\ ret.status = 200)
          => ret.versionA.content # <<>> \/ ret.versionB.content # <<>>

\* a comparison of an empty version A with a version B of two sections,
\* answered with a report
C7_Witness ==
    /\ CompareReturned
    /\ EmptyExtraction(args.fileA)
    /\ ret.status = 200
    /\ ret.versionA.content = <<>>
    /\ Len(ret.changes) = 2

====
